---- MODULE Spec2Model ----
(***************************************************************************)
(* The pipeline state machine of video-worker/video_processor.py: one      *)
(* VideoProcessor working through validation, image normalization, audio  *)
(* normalization, timeline assembly, thumbnail, audio muxing, effects and  *)
(* fade-out, persisting its status record to config.json as it goes.       *)
(*                                                                         *)
(* Every method of VideoProcessor is an operator from the processor state  *)
(* (a record s holding the object's fields, the configuration file and the *)
(* history of what the run did) to the processor state after it; the       *)
(* outcome of an external invocation (o) and the point at which the        *)
(* process is killed while it rewrites config.json (c) are its inputs.     *)
(* A method that issues several blocking external invocations is one       *)
(* operator per invocation.  The actions apply these operators to the      *)
(* variables.                                                              *)
(***************************************************************************)
EXTENDS Integers, Sequences, FiniteSets, TLC

\* len(self.config["images"]) must be exactly this (validate_files).
RequiredImages == 30

\* Largest image list a project configuration holds in the model.
MaxImages == 31

\* Number of times the worker is started on the same project directory.
MaxRuns == 2

VARIABLES
    project,      \* the project as created upstream: config.json's declarative
                  \* keys and the asset files on disk (never written by the worker)
    pc,           \* position of the worker process
    config,       \* self.config: the status keys of the in-memory record
    disk,         \* contents of <project_dir>/config.json
    image_paths,  \* prepare_images' list of written images
    audio_files,  \* prepare_audio's dict: track name -> path
    video_path,   \* process()'s video_path
    final_video,  \* process()'s final_video
    trace,        \* history of the run: external invocations and completed
                  \* rewrites of config.json, in order
    exitCode,     \* sys.exit's code; -1 while the process has not exited
    run           \* how many times the worker has been started

vars == <<project, pc, config, disk, image_paths, audio_files, video_path,
          final_video, trace, exitCode, run>>

----------------------------------------------------------------------------
(* Values *)

AssetStates == {"none", "missing", "present"}

\* What an external invocation can do: exit 0, exit non-zero
\* (subprocess.CalledProcessError under check=True), or not run at all
\* (FileNotFoundError/OSError from subprocess.run).
Outcomes == {"ok", "fail", "raise"}

\* ffprobe can also exit 0 with text that float() rejects ("N/A", "").
ProbeOutcomes == Outcomes \cup {"unparseable"}

\* Where the process can be killed inside a rewrite of config.json:
\* not at all; after the in-memory update and before open(); after
\* open(path, "w") has truncated the file; after part of the JSON text
\* has reached the file.
CrashPoints == {"none", "before_open", "after_truncate", "mid_write"}

Msg(text, arg) == [text |-> text, arg |-> arg]

NoMsg == Msg("", 0)

Path(dir, name, index) == [dir |-> dir, name |-> name, index |-> index]

\* The empty string a failed stage returns.
NoPath == Path("", "", 0)

Output(name) == Path("output", name, 0)

SourceImage(i) == Path("images", "<images[i].filename>", i)

ProcessedImage(i) == Path("output/processed_images", "img_%02d.jpg", i)

NarrationAsset == Path("audio", "<audio.narration.filename>", 0)

SoundtrackAsset == Path("public/sounds", "<selectedSoundtrack>.mp3", 0)

FilterAsset == Path("public/filters", "<selectedFilter>.mp4", 0)

ThumbnailAsset == Path("images", "<thumbnail.filename>", 0)

basename(path) == path.name

\* The status keys of a configuration record nobody has written yet.
PendingRecord ==
    [status |-> "pending", progress |-> 0, message |-> NoMsg,
     outputFile |-> "", completedAt |-> FALSE]

\* No record: nothing loaded, or a file that does not hold one.
NoRecord ==
    [status |-> "", progress |-> 0, message |-> NoMsg,
     outputFile |-> "", completedAt |-> FALSE]

CompleteFile(record) == [intact |-> "complete", content |-> record]

EmptyFile == [intact |-> "empty", content |-> NoRecord]

PartialFile == [intact |-> "partial", content |-> NoRecord]

EngineEvent(stage, tool, mode, reads, writes, o) ==
    [kind |-> "engine", stage |-> stage, tool |-> tool, mode |-> mode,
     reads |-> reads, writes |-> writes, outcome |-> o]

StatusEvent(stage, record) ==
    [kind |-> "status", stage |-> stage, record |-> record]

Range(seq) == {seq[k] : k \in 1..Len(seq)}

\* Lengths of the image list: none, one too few, the required number, and
\* too many.
ImageCounts == {0, RequiredImages - 1} \cup (RequiredImages..MaxImages)

\* The projects the worker is pointed at.  A project whose directory does
\* not exist has nothing else; missingImage is the position (from 1) of the
\* first image whose file is not on disk, the first or the last one of the
\* list, or 0 when all are there.  id says whether the record has the key
\* "id", which process() reads before anything else: of the projects
\* without it the one that lacks nothing else is taken.
Projects ==
    {p \in [dir : BOOLEAN, id : BOOLEAN, images : ImageCounts,
            missingImage : {0, 1} \cup ImageCounts,
            narrationOnDisk : BOOLEAN, soundtrack : AssetStates,
            filter : AssetStates, thumbnail : AssetStates,
            outputDir : BOOLEAN] :
        /\ p.missingImage \in {0, 1, p.images}
        /\ ~p.id => /\ p.dir
                    /\ p.images = RequiredImages
                    /\ p.missingImage = 0
                    /\ p.narrationOnDisk
                    /\ p.outputDir
                    /\ p.soundtrack = "present"
                    /\ p.filter = "present"
                    /\ p.thumbnail = "present"
        /\ ~p.dir => /\ p.images = 0
                     /\ ~p.narrationOnDisk
                     /\ ~p.outputDir
                     /\ p.soundtrack = "none"
                     /\ p.filter = "none"
                     /\ p.thumbnail = "none"}

----------------------------------------------------------------------------
(* The processor state and the plumbing of process() and main() *)

Self ==
    [pc |-> pc, config |-> config, disk |-> disk, image_paths |-> image_paths,
     audio_files |-> audio_files, video_path |-> video_path,
     final_video |-> final_video, trace |-> trace, exitCode |-> exitCode]

Commit(s) ==
    /\ pc' = s.pc
    /\ config' = s.config
    /\ disk' = s.disk
    /\ image_paths' = s.image_paths
    /\ audio_files' = s.audio_files
    /\ video_path' = s.video_path
    /\ final_video' = s.final_video
    /\ trace' = s.trace
    /\ exitCode' = s.exitCode
    /\ UNCHANGED <<project, run>>

Crashed(s) == s.pc = "crashed"

\* process() moves on to the next step, unless the process was killed.
Goto(s, next) == IF Crashed(s) THEN s ELSE [s EXCEPT !.pc = next]

\* Mutant of Return: main() exits with sys.exit(0) whatever process()
\* returned.
ReturnZero(s, ok) ==
    IF Crashed(s) THEN s
    ELSE [s EXCEPT !.pc = "exited", !.exitCode = 0]

\* process() returns ok and main() exits with sys.exit(0 if success else 1).
Return(s, ok) ==
    IF Crashed(s) THEN s
    ELSE [s EXCEPT !.pc = "exited", !.exitCode = IF ok THEN 0 ELSE 1]

\* subprocess.run(cmd, ...) of an external tool, awaited to completion.
Invoke(s, stage, tool, mode, reads, writes, o) ==
    [s EXCEPT !.trace = Append(@, EngineEvent(stage, tool, mode, reads, writes, o))]

\* with open(self.config_path, "w") as f: json.dump(self.config, f, ...)
write_config(s, stage, c) ==
    CASE c = "none" ->
            [s EXCEPT !.disk = CompleteFile(s.config),
                      !.trace = Append(@, StatusEvent(stage, s.config))]
      [] c = "before_open" -> [s EXCEPT !.pc = "crashed"]
      [] c = "after_truncate" -> [s EXCEPT !.pc = "crashed", !.disk = EmptyFile]
      [] c = "mid_write" -> [s EXCEPT !.pc = "crashed", !.disk = PartialFile]

\* Mutant of update_status: an `error` update keeps the progress reached.
update_status_keep(s, stage, status, progress, message, c) ==
    write_config(
        [s EXCEPT !.config.status = status,
                  !.config.progress = IF status = "error" THEN @ ELSE progress,
                  !.config.message = IF message.text # "" THEN message ELSE @],
        stage, c)

update_status(s, stage, status, progress, message, c) ==
    write_config(
        [s EXCEPT !.config.status = status,
                  !.config.progress = progress,
                  !.config.message = IF message.text # "" THEN message ELSE @],
        stage, c)

\* Mutant of Unexpected: the exception ends process() without being
\* recorded.
UnexpectedUnrecorded(s, c) == Return(s, FALSE)

\* process()'s "except Exception".
Unexpected(s, c) ==
    Return(update_status(s, "process", "error", 0, Msg("Error inesperado", 0), c),
           FALSE)

----------------------------------------------------------------------------
(* Validation *)

\* Mutant of ImageCountValid: a list that is long enough passes.
ImageCountAtLeast(n) == n >= RequiredImages

\* len(self.config["images"]) != 30 fails Validation.
ImageCountValid(n) == n = RequiredImages

\* Mutant of validate_files: a project whose record says `completed` is not
\* processed again.
validate_files_once(s, p, c) ==
    IF s.config.status = "completed"
    THEN Return(update_status(s, "validation", "error", 0,
                    Msg("Proyecto ya procesado", 0), c),
                FALSE)
    ELSE IF ~ImageCountValid(p.images)
    THEN Return(update_status(s, "validation", "error", 0,
                    Msg("Se requieren 30 imagenes, encontradas", p.images), c),
                FALSE)
    ELSE IF p.missingImage # 0
    THEN Return(update_status(s, "validation", "error", 0,
                    Msg("Imagen no encontrada", p.missingImage), c),
                FALSE)
    ELSE IF ~p.narrationOnDisk
    THEN Return(update_status(s, "validation", "error", 0,
                    Msg("Audio de narracion no encontrado", 0), c),
                FALSE)
    ELSE Goto(update_status(s, "validation", "processing", 10,
                    Msg("Archivos validados correctamente", 0), c),
              "images")

validate_files(s, p, c) ==
    IF ~ImageCountValid(p.images)
    THEN Return(update_status(s, "validation", "error", 0,
                    Msg("Se requieren 30 imagenes, encontradas", p.images), c),
                FALSE)
    ELSE IF p.missingImage # 0
    THEN Return(update_status(s, "validation", "error", 0,
                    Msg("Imagen no encontrada", p.missingImage), c),
                FALSE)
    ELSE IF ~p.narrationOnDisk
    THEN Return(update_status(s, "validation", "error", 0,
                    Msg("Audio de narracion no encontrado", 0), c),
                FALSE)
    ELSE Goto(update_status(s, "validation", "processing", 10,
                    Msg("Archivos validados correctamente", 0), c),
              "images")

\* The head of process(): the banner reads self.config['id'] (a KeyError
\* when the record has no such key), then Validation.
process_begin(s, p, c) ==
    IF ~p.id THEN Unexpected(s, c) ELSE validate_files(s, p, c)

----------------------------------------------------------------------------
(* Image normalization: one step per image of the loop *)

\* Mutant of ImageProgress: the images still to do are counted instead of the
\* images done.
ImageProgressCountdown(i, n) == 10 + ((n - i) * 20) \div n

\* progress = 10 + int((i + 1) / len(self.config["images"]) * 20); the float
\* product truncates to the same integer as the exact quotient for every
\* list of 1 to 39 images.
ImageProgress(i, n) == 10 + ((i + 1) * 20) \div n

\* process(): if not image_paths: return False
AfterImages(s) ==
    IF s.image_paths = <<>> THEN Return(s, FALSE) ELSE Goto(s, "narration")

\* Mutant of prepare_images: an image that cannot be converted is reported
\* and the loop goes on with the next one.
prepare_images_continue(s, p, o, c) ==
    LET i == Len(s.image_paths)
        n == p.images
        r == Invoke(s, "images", "ffmpeg", "scale_crop", {SourceImage(i)},
                    ProcessedImage(i), o)
    IN  IF i = 0 /\ ~p.outputDir
        THEN Unexpected(s, c)
        ELSE IF n = 0 THEN AfterImages(s)
        ELSE CASE o = "ok" ->
                    LET u == update_status(
                                [r EXCEPT !.image_paths = Append(@, ProcessedImage(i))],
                                "images", "processing", ImageProgress(i, n),
                                Msg("Procesando imagen", i + 1), c)
                    IN  IF i + 1 < n THEN u ELSE AfterImages(u)
               [] o = "fail" ->
                    LET u == update_status(
                                [r EXCEPT !.image_paths = Append(@, ProcessedImage(i))],
                                "images", "error", 0,
                                Msg("Error procesando imagen", i + 1), c)
                    IN  IF i + 1 < n THEN u ELSE AfterImages(u)
               [] o = "raise" -> Unexpected(r, c)

prepare_images(s, p, o, c) ==
    LET i == Len(s.image_paths)
        n == p.images
        r == Invoke(s, "images", "ffmpeg", "scale_crop", {SourceImage(i)},
                    ProcessedImage(i), o)
    IN  IF i = 0 /\ ~p.outputDir
        THEN Unexpected(s, c)           \* processed_dir.mkdir(exist_ok=True)
        ELSE IF n = 0 THEN AfterImages(s)
        ELSE CASE o = "ok" ->
                    LET u == update_status(
                                [r EXCEPT !.image_paths = Append(@, ProcessedImage(i))],
                                "images", "processing", ImageProgress(i, n),
                                Msg("Procesando imagen", i + 1), c)
                    IN  IF i + 1 < n THEN u ELSE AfterImages(u)
               [] o = "fail" ->
                    AfterImages(update_status(
                                [r EXCEPT !.image_paths = <<>>],
                                "images", "error", 0,
                                Msg("Error procesando imagen", i + 1), c))
               [] o = "raise" -> Unexpected(r, c)

----------------------------------------------------------------------------
(* Audio normalization: the narration, then the soundtrack *)

\* Mutant of AfterAudio: process() does not check prepare_audio's result.
AfterAudioUnchecked(s) == Goto(s, "timeline")

\* process(): if not audio_files: return False
AfterAudio(s) ==
    IF DOMAIN s.audio_files = {} THEN Return(s, FALSE) ELSE Goto(s, "timeline")

\* if self.config.get("selectedSoundtrack"): ... if soundtrack_path.exists():
SoundtrackAvailable(p) == p.soundtrack = "present"

prepare_audio_narration(s, p, o, c) ==
    LET r == Invoke(s, "audio", "ffmpeg", "pcm", {NarrationAsset},
                    Output("narration.wav"), o)
    IN  CASE o = "ok" ->
                LET u == update_status(
                            [r EXCEPT !.audio_files =
                                        @ @@ ("narration" :> Output("narration.wav"))],
                            "audio", "processing", 35,
                            Msg("Audio de narracion procesado", 0), c)
                IN  IF SoundtrackAvailable(p) THEN Goto(u, "soundtrack")
                    ELSE AfterAudio(u)
          [] o = "fail" ->
                AfterAudio(update_status([r EXCEPT !.audio_files = <<>>],
                                "audio", "error", 0,
                                Msg("Error procesando audio", 0), c))
          [] o = "raise" -> Unexpected(r, c)

prepare_audio_soundtrack(s, p, o, c) ==
    LET r == Invoke(s, "audio", "ffmpeg", "pcm_volume", {SoundtrackAsset},
                    Output("soundtrack.wav"), o)
    IN  CASE o = "ok" ->
                AfterAudio(update_status(
                            [r EXCEPT !.audio_files =
                                        @ @@ ("soundtrack" :> Output("soundtrack.wav"))],
                            "audio", "processing", 40,
                            Msg("Soundtrack procesado", 0), c))
          [] o = "fail" -> AfterAudio(r)
          [] o = "raise" -> Unexpected(r, c)

----------------------------------------------------------------------------
(* Timeline assembly *)

\* process(): if not video_path: return False
AfterTimeline(s) ==
    IF s.video_path = NoPath THEN Return(s, FALSE) ELSE Goto(s, "thumbnail")

\* Mutant of create_video_timeline: the failure is returned without being
\* recorded.
create_video_timeline_silent(s, p, o, c) ==
    LET r == Invoke(s, "timeline", "ffmpeg", "concat",
                    {Output("images_list.txt")} \cup Range(s.image_paths),
                    Output("images_video.mp4"), o)
    IN  CASE o = "ok" ->
                AfterTimeline(update_status(
                            [r EXCEPT !.video_path = Output("images_video.mp4")],
                            "timeline", "processing", 50,
                            Msg("Timeline de video creado", 0), c))
          [] o = "fail" -> AfterTimeline([r EXCEPT !.video_path = NoPath])
          [] o = "raise" -> Unexpected(r, c)

create_video_timeline(s, p, o, c) ==
    LET r == Invoke(s, "timeline", "ffmpeg", "concat",
                    {Output("images_list.txt")} \cup Range(s.image_paths),
                    Output("images_video.mp4"), o)
    IN  CASE o = "ok" ->
                AfterTimeline(update_status(
                            [r EXCEPT !.video_path = Output("images_video.mp4")],
                            "timeline", "processing", 50,
                            Msg("Timeline de video creado", 0), c))
          [] o = "fail" ->
                AfterTimeline(update_status([r EXCEPT !.video_path = NoPath],
                            "timeline", "error", 0,
                            Msg("Error creando timeline", 0), c))
          [] o = "raise" -> Unexpected(r, c)

----------------------------------------------------------------------------
(* Thumbnail: the lead-in clip, then the join *)

\* if not self.config.get("thumbnail"): return video_path
ThumbnailConfigured(p) == p.thumbnail # "none"

\* Mutant of add_thumbnail_clip: a clip that cannot be rendered is reported as
\* an error and ends the run.
add_thumbnail_clip_fatal(s, p, o, c) ==
    LET r == Invoke(s, "thumbnail", "ffmpeg", "loop_clip", {ThumbnailAsset},
                    Output("thumbnail_video.mp4"), o)
    IN  IF ~ThumbnailConfigured(p) THEN Goto(s, "mux")
        ELSE CASE o = "ok" -> Goto(r, "thumbnail_concat")
               [] o = "fail" ->
                    Return(update_status(r, "thumbnail", "error", 0,
                                Msg("Error creando miniatura", 0), c), FALSE)
               [] o = "raise" -> Unexpected(r, c)

add_thumbnail_clip(s, p, o, c) ==
    LET r == Invoke(s, "thumbnail", "ffmpeg", "loop_clip", {ThumbnailAsset},
                    Output("thumbnail_video.mp4"), o)
    IN  IF ~ThumbnailConfigured(p) THEN Goto(s, "mux")
        ELSE CASE o = "ok" -> Goto(r, "thumbnail_concat")
               [] o = "fail" -> Goto(r, "mux")
               [] o = "raise" -> Unexpected(r, c)

add_thumbnail_concat(s, p, o, c) ==
    LET r == Invoke(s, "thumbnail", "ffmpeg", "concat_copy",
                    {Output("concat_list.txt"), Output("thumbnail_video.mp4"),
                     s.video_path},
                    Output("with_thumbnail.mp4"), o)
    IN  CASE o = "ok" ->
                Goto(update_status(
                        [r EXCEPT !.video_path = Output("with_thumbnail.mp4")],
                        "thumbnail", "processing", 60,
                        Msg("Miniatura agregada", 0), c),
                     "mux")
          [] o = "fail" -> Goto(r, "mux")
          [] o = "raise" -> Unexpected(r, c)

----------------------------------------------------------------------------
(* Audio muxing *)

\* process(): if not video_path: return False
AfterAudioMux(s) ==
    IF s.video_path = NoPath THEN Return(s, FALSE) ELSE Goto(s, "effects")

\* audio_inputs: "1:a" for the narration, "2:a" for the soundtrack.
AudioInputs(tracks) == DOMAIN tracks \cap {"narration", "soundtrack"}

\* One input is mapped as it is, two are mixed with amix.
MuxMode(tracks) ==
    IF Cardinality(AudioInputs(tracks)) = 1 THEN "map_single" ELSE "amix"

\* Mutant of add_audio: the audio is muxed into the video file it was given.
add_audio_in_place(s, p, o, c) ==
    LET r == Invoke(s, "mux", "ffmpeg", MuxMode(s.audio_files),
                    {s.video_path}
                        \cup {s.audio_files[k] : k \in AudioInputs(s.audio_files)},
                    s.video_path, o)
    IN  IF AudioInputs(s.audio_files) = {}
        THEN AfterAudioMux(update_status([s EXCEPT !.video_path = NoPath],
                            "mux", "error", 0,
                            Msg("No audio tracks available", 0), c))
        ELSE CASE o = "ok" ->
                    AfterAudioMux(update_status(r,
                            "mux", "processing", 75,
                            Msg("Audio agregado al video", 0), c))
               [] o = "fail" ->
                    AfterAudioMux(update_status([r EXCEPT !.video_path = NoPath],
                            "mux", "error", 0,
                            Msg("Error agregando audio", 0), c))
               [] o = "raise" -> Unexpected(r, c)

add_audio(s, p, o, c) ==
    LET r == Invoke(s, "mux", "ffmpeg", MuxMode(s.audio_files),
                    {s.video_path}
                        \cup {s.audio_files[k] : k \in AudioInputs(s.audio_files)},
                    Output("with_audio.mp4"), o)
    IN  IF AudioInputs(s.audio_files) = {}
        THEN AfterAudioMux(update_status([s EXCEPT !.video_path = NoPath],
                            "mux", "error", 0,
                            Msg("No audio tracks available", 0), c))
        ELSE CASE o = "ok" ->
                    AfterAudioMux(update_status(
                            [r EXCEPT !.video_path = Output("with_audio.mp4")],
                            "mux", "processing", 75,
                            Msg("Audio agregado al video", 0), c))
               [] o = "fail" ->
                    AfterAudioMux(update_status([r EXCEPT !.video_path = NoPath],
                            "mux", "error", 0,
                            Msg("Error agregando audio", 0), c))
               [] o = "raise" -> Unexpected(r, c)

----------------------------------------------------------------------------
(* Visual effects *)

\* if not self.config.get("selectedFilter"): return video_path
FilterSelected(p) == p.filter # "none"

\* filter_file.exists()
FilterOnDisk(p) == p.filter = "present"

\* Mutant of apply_effects: the overlay is laid over the timeline video.
apply_effects_on_timeline(s, p, o, c) ==
    LET r == Invoke(s, "effects", "ffmpeg", "colorkey_overlay",
                    {Output("images_video.mp4"), FilterAsset},
                    Output("with_effects.mp4"), o)
    IN  IF ~FilterSelected(p) THEN Goto(s, "fade_probe")
        ELSE IF ~FilterOnDisk(p) THEN Goto(s, "fade_probe")
        ELSE CASE o = "ok" ->
                    Goto(update_status(
                            [r EXCEPT !.video_path = Output("with_effects.mp4")],
                            "effects", "processing", 85,
                            Msg("Efectos visuales aplicados", 0), c),
                         "fade_probe")
               [] o = "fail" -> Goto(r, "fade_probe")
               [] o = "raise" -> Unexpected(r, c)

\* Mutant of apply_effects: the overlay is attempted without checking that
\* the filter file exists.
apply_effects_unchecked(s, p, o, c) ==
    LET r == Invoke(s, "effects", "ffmpeg", "colorkey_overlay",
                    {s.video_path, FilterAsset}, Output("with_effects.mp4"),
                    IF FilterOnDisk(p) \/ o = "raise" THEN o ELSE "fail")
    IN  IF ~FilterSelected(p) THEN Goto(s, "fade_probe")
        ELSE CASE r.trace[Len(r.trace)].outcome = "ok" ->
                    Goto(update_status(
                            [r EXCEPT !.video_path = Output("with_effects.mp4")],
                            "effects", "processing", 85,
                            Msg("Efectos visuales aplicados", 0), c),
                         "fade_probe")
               [] r.trace[Len(r.trace)].outcome = "fail" -> Goto(r, "fade_probe")
               [] r.trace[Len(r.trace)].outcome = "raise" -> Unexpected(r, c)

apply_effects(s, p, o, c) ==
    LET r == Invoke(s, "effects", "ffmpeg", "colorkey_overlay",
                    {s.video_path, FilterAsset}, Output("with_effects.mp4"), o)
    IN  IF ~FilterSelected(p) THEN Goto(s, "fade_probe")
        ELSE IF ~FilterOnDisk(p) THEN Goto(s, "fade_probe")
        ELSE CASE o = "ok" ->
                    Goto(update_status(
                            [r EXCEPT !.video_path = Output("with_effects.mp4")],
                            "effects", "processing", 85,
                            Msg("Efectos visuales aplicados", 0), c),
                         "fade_probe")
               [] o = "fail" -> Goto(r, "fade_probe")
               [] o = "raise" -> Unexpected(r, c)

----------------------------------------------------------------------------
(* Fade-out: the duration probe, then the fade *)

add_fade_out_probe(s, p, o, c) ==
    LET r == Invoke(s, "fade", "ffprobe", "duration", {s.video_path}, NoPath, o)
    IN  CASE o = "ok" -> Goto(r, "fade")
          [] o = "fail" -> Goto([r EXCEPT !.final_video = s.video_path], "finalize")
          [] o = "unparseable" -> Unexpected(r, c)  \* float() raises ValueError
          [] o = "raise" -> Unexpected(r, c)

\* Mutant of add_fade_out: the stage reports its progress whether or not the
\* fade succeeded.
add_fade_out_reported(s, p, o, c) ==
    LET r == Invoke(s, "fade", "ffmpeg", "fade_out", {s.video_path},
                    Output("final_video.mp4"), o)
    IN  CASE o = "ok" ->
                Goto(update_status(
                        [r EXCEPT !.final_video = Output("final_video.mp4")],
                        "fade", "processing", 95, Msg("Fade-out agregado", 0), c),
                     "finalize")
          [] o = "fail" ->
                Goto(update_status(
                        [r EXCEPT !.final_video = s.video_path],
                        "fade", "processing", 95, Msg("Fade-out agregado", 0), c),
                     "finalize")
          [] o = "raise" -> Unexpected(r, c)

add_fade_out(s, p, o, c) ==
    LET r == Invoke(s, "fade", "ffmpeg", "fade_out", {s.video_path},
                    Output("final_video.mp4"), o)
    IN  CASE o = "ok" ->
                Goto(update_status(
                        [r EXCEPT !.final_video = Output("final_video.mp4")],
                        "fade", "processing", 95, Msg("Fade-out agregado", 0), c),
                     "finalize")
          [] o = "fail" -> Goto([r EXCEPT !.final_video = s.video_path], "finalize")
          [] o = "raise" -> Unexpected(r, c)

----------------------------------------------------------------------------
(* Completion, and the process around process() *)

\* Mutant of finalize: the output file is named after the video Fade-Out
\* was given, not after the one it returned.
finalize_unfaded(s, p, o, c) ==
    LET done == [s EXCEPT !.config.status = "completed",
                          !.config.progress = 100,
                          !.config.outputFile = basename(s.video_path)]
        r == Invoke(done, "process", "date", "", {}, NoPath, o)
    IN  IF o = "raise" THEN Unexpected(r, c)
        ELSE Return(write_config([r EXCEPT !.config.completedAt = TRUE],
                                 "process", c),
                    TRUE)

\* The tail of process(): the final status, the "date" command (run without
\* check=True, so a non-zero exit passes), the last rewrite of config.json.
finalize(s, p, o, c) ==
    LET done == [s EXCEPT !.config.status = "completed",
                          !.config.progress = 100,
                          !.config.outputFile = basename(s.final_video)]
        r == Invoke(done, "process", "date", "", {}, NoPath, o)
    IN  IF o = "raise" THEN Unexpected(r, c)
        ELSE Return(write_config([r EXCEPT !.config.completedAt = TRUE],
                                 "process", c),
                    TRUE)

\* main() up to processor.process(): the directory check, and __init__'s
\* json.load of config.json, which raises on a file that holds no record.
main(s, p) ==
    IF ~p.dir THEN [s EXCEPT !.pc = "exited", !.exitCode = 1]
    ELSE IF s.disk.intact # "complete"
    THEN [s EXCEPT !.pc = "exited", !.exitCode = 1]
    ELSE [s EXCEPT !.pc = "validate", !.config = s.disk.content]

----------------------------------------------------------------------------
(* The state machine *)

Init ==
    /\ project \in Projects
    /\ run = 1
    /\ pc = "main"
    /\ config = NoRecord
    /\ disk = CompleteFile(PendingRecord)
    /\ image_paths = <<>>
    /\ audio_files = <<>>
    /\ video_path = NoPath
    /\ final_video = NoPath
    /\ trace = <<>>
    /\ exitCode = -1

Main ==
    /\ pc = "main"
    /\ Commit(main(Self, project))

ValidateFiles ==
    /\ pc = "validate"
    /\ \E c \in CrashPoints : Commit(process_begin(Self, project, c))

PrepareImages ==
    /\ pc = "images"
    /\ \E o \in Outcomes, c \in CrashPoints :
            Commit(prepare_images(Self, project, o, c))

PrepareAudioNarration ==
    /\ pc = "narration"
    /\ \E o \in Outcomes, c \in CrashPoints :
            Commit(prepare_audio_narration(Self, project, o, c))

PrepareAudioSoundtrack ==
    /\ pc = "soundtrack"
    /\ \E o \in Outcomes, c \in CrashPoints :
            Commit(prepare_audio_soundtrack(Self, project, o, c))

CreateVideoTimeline ==
    /\ pc = "timeline"
    /\ \E o \in Outcomes, c \in CrashPoints :
            Commit(create_video_timeline(Self, project, o, c))

\* ffmpeg cannot turn a thumbnail file that is not there into a clip.
AddThumbnailClip ==
    /\ pc = "thumbnail"
    /\ \E o \in Outcomes, c \in CrashPoints :
            /\ project.thumbnail = "missing" => o # "ok"
            /\ Commit(add_thumbnail_clip(Self, project, o, c))

AddThumbnailConcat ==
    /\ pc = "thumbnail_concat"
    /\ \E o \in Outcomes, c \in CrashPoints :
            Commit(add_thumbnail_concat(Self, project, o, c))

AddAudio ==
    /\ pc = "mux"
    /\ \E o \in Outcomes, c \in CrashPoints :
            Commit(add_audio(Self, project, o, c))

ApplyEffects ==
    /\ pc = "effects"
    /\ \E o \in Outcomes, c \in CrashPoints :
            Commit(apply_effects(Self, project, o, c))

AddFadeOutProbe ==
    /\ pc = "fade_probe"
    /\ \E o \in ProbeOutcomes, c \in CrashPoints :
            Commit(add_fade_out_probe(Self, project, o, c))

AddFadeOut ==
    /\ pc = "fade"
    /\ \E o \in Outcomes, c \in CrashPoints :
            Commit(add_fade_out(Self, project, o, c))

Finalize ==
    /\ pc = "finalize"
    /\ \E o \in Outcomes, c \in CrashPoints :
            Commit(finalize(Self, project, o, c))

\* The worker is started again on the project directory a finished or
\* killed process left behind.
Restart ==
    /\ pc \in {"exited", "crashed"}
    /\ run < MaxRuns
    /\ run' = run + 1
    /\ pc' = "main"
    /\ config' = NoRecord
    /\ image_paths' = <<>>
    /\ audio_files' = <<>>
    /\ video_path' = NoPath
    /\ final_video' = NoPath
    /\ trace' = <<>>
    /\ exitCode' = -1
    /\ UNCHANGED <<project, disk>>

Next ==
    \/ Main
    \/ ValidateFiles
    \/ PrepareImages
    \/ PrepareAudioNarration
    \/ PrepareAudioSoundtrack
    \/ CreateVideoTimeline
    \/ AddThumbnailClip
    \/ AddThumbnailConcat
    \/ AddAudio
    \/ ApplyEffects
    \/ AddFadeOutProbe
    \/ AddFadeOut
    \/ Finalize
    \/ Restart

Spec == Init /\ [][Next]_vars

----------------------------------------------------------------------------
(* Reading the history of a run *)

IsEngine(e) == e.kind = "engine"

IsStatus(e) == e.kind = "status"

\* The invocations of the media engine (ffmpeg, ffprobe) in the trace.
MediaCalls == {k \in 1..Len(trace) : IsEngine(trace[k]) /\ trace[k].tool # "date"}

StatusWrites == SelectSeq(trace, IsStatus)

\* __init__ has loaded a configuration record: process() is running or done.
Constructed == config.status # ""

\* process() has returned and main() has exited with its result.
Returned == pc = "exited" /\ Constructed

\* The invocations whose failure is fatal: they belong to a required stage
\* (of Audio Normalization, the narration conversion).
RequiredCall(e) ==
    /\ IsEngine(e)
    /\ \/ e.stage \in {"images", "timeline", "mux"}
       \/ e.stage = "audio" /\ e.writes = Output("narration.wav")

\* What process() needs to get to Validation and what Validation checks,
\* read off the project.
ProjectValid ==
    /\ project.id
    /\ project.images = RequiredImages
    /\ project.missingImage = 0
    /\ project.narrationOnDisk

\* No invocation of the run was prevented from running (an exception other
\* than the engine's failure exit).
NoneRaised == \A k \in 1..Len(trace) : IsEngine(trace[k]) => trace[k].outcome # "raise"

PersistedStatus == disk.content.status

----------------------------------------------------------------------------
(* C1 *)

\* C1: once a required stage has failed (Validation rejects the project, or
\* an image conversion, the narration conversion, Timeline Assembly or Audio
\* Muxing fails or cannot run), the run is over: the failed invocation is the
\* last invocation of the run, only `error` records are written after it, and
\* when process() has returned the record in config.json has status `error`
\* and the exit code is 1.  A failed narration conversion is therefore never
\* followed by the Timeline Assembly invocation.
C1_RequiredFailureHalts ==
    /\ \A k \in 1..Len(trace) :
            (RequiredCall(trace[k]) /\ trace[k].outcome # "ok") =>
                /\ pc \in {"exited", "crashed"}
                /\ \A j \in (k + 1)..Len(trace) :
                        IsStatus(trace[j]) /\ trace[j].record.status = "error"
                /\ pc = "exited" =>
                        /\ disk.intact = "complete"
                        /\ PersistedStatus = "error"
                        /\ exitCode = 1
    /\ (Constructed /\ pc # "validate" /\ ~ProjectValid) =>
            /\ pc \in {"exited", "crashed"}
            /\ MediaCalls = {}
            /\ pc = "exited" =>
                    /\ disk.intact = "complete"
                    /\ PersistedStatus = "error"
                    /\ exitCode = 1

\* A run whose narration conversion failed has returned with `error`, and
\* its last invocation is that conversion.
C1_Witness ==
    /\ Returned
    /\ PersistedStatus = "error"
    /\ \E k \in 1..Len(trace) :
            /\ RequiredCall(trace[k])
            /\ trace[k].stage = "audio"
            /\ trace[k].outcome = "fail"

----------------------------------------------------------------------------
(* C2 *)

DegradedCall(e, stage) == IsEngine(e) /\ e.stage = stage /\ e.outcome = "fail"

\* C2: a Thumbnail or Effects invocation that exits with failure (a thumbnail
\* file that is not there makes the first one fail) and a filter file that
\* is not there leave the run going with the stage's input: after a failed
\* Thumbnail invocation process() is at Audio Muxing with the timeline
\* video, and the muxing invocation reads it; after a failed Effects
\* invocation, or with the filter file missing, process() is at Fade-Out
\* with the muxed video, and the duration probe reads it.
C2_OptionalStagesDegrade ==
    /\ \A k \in 1..Len(trace) :
            DegradedCall(trace[k], "thumbnail") =>
                IF k = Len(trace)
                THEN pc = "mux" /\ video_path = Output("images_video.mp4")
                ELSE /\ IsEngine(trace[k + 1])
                     /\ trace[k + 1].stage = "mux"
                     /\ Output("images_video.mp4") \in trace[k + 1].reads
                     /\ Output("with_thumbnail.mp4") \notin trace[k + 1].reads
    /\ \A k \in 1..Len(trace) :
            DegradedCall(trace[k], "effects") =>
                IF k = Len(trace)
                THEN pc = "fade_probe" /\ video_path = Output("with_audio.mp4")
                ELSE /\ IsEngine(trace[k + 1])
                     /\ trace[k + 1].tool = "ffprobe"
                     /\ trace[k + 1].reads = {Output("with_audio.mp4")}
    /\ project.filter = "missing" =>
            /\ \A k \in 1..Len(trace) :
                    IsEngine(trace[k]) =>
                        /\ trace[k].stage # "effects"
                        /\ trace[k].tool = "ffprobe" =>
                                trace[k].reads = {Output("with_audio.mp4")}
            /\ pc = "fade_probe" => video_path = Output("with_audio.mp4")

\* A run whose thumbnail join and effects overlay both failed, and which
\* completed.
C2_Witness ==
    /\ Returned
    /\ PersistedStatus = "completed"
    /\ \E k \in 1..Len(trace) :
            DegradedCall(trace[k], "thumbnail") /\ trace[k].mode = "concat_copy"
    /\ \E k \in 1..Len(trace) : DegradedCall(trace[k], "effects")

----------------------------------------------------------------------------
(* C3 *)

\* The run could not determine the duration, or could not apply the fade.
FadeDegraded ==
    \E k \in 1..Len(trace) :
        /\ IsEngine(trace[k])
        /\ trace[k].stage = "fade"
        /\ \/ trace[k].tool = "ffprobe" /\ trace[k].outcome \in {"fail", "unparseable"}
           \/ trace[k].tool = "ffmpeg" /\ trace[k].outcome = "fail"

\* C3 (as claimed): a run in which every invocation ran and the duration
\* could not be determined (the probe fails, or prints no parseable number)
\* or the fade failed returns with status `completed` and the previous
\* stage's video as its output file.
C3_FadeOutNonFatal ==
    (Returned /\ NoneRaised /\ FadeDegraded) =>
        /\ PersistedStatus = "completed"
        /\ disk.content.outputFile = basename(video_path)

----------------------------------------------------------------------------
(* C4 *)

\* Every required stage of the run succeeded.
RequiredStagesSucceeded ==
    /\ ProjectValid
    /\ \A k \in 1..Len(trace) : RequiredCall(trace[k]) => trace[k].outcome = "ok"
    /\ \E k \in 1..Len(trace) :
            /\ RequiredCall(trace[k])
            /\ trace[k].stage = "mux"
            /\ trace[k].outcome = "ok"

\* C4 (as claimed): a run in which every invocation ran and every required
\* stage succeeded returns with config.json holding status `completed`,
\* progress 100, the final video's file name and a completion time, and
\* that record is the last one the run wrote.
C4_CompletedRecord ==
    (Returned /\ NoneRaised /\ RequiredStagesSucceeded) =>
        /\ disk = CompleteFile(config)
        /\ config.status = "completed"
        /\ config.progress = 100
        /\ config.outputFile = basename(final_video)
        /\ config.outputFile # ""
        /\ config.completedAt
        /\ trace[Len(trace)] = StatusEvent("process", config)

----------------------------------------------------------------------------
(* C5 *)

\* C5: within a run, of two consecutive completed rewrites of config.json
\* that both record status `processing`, the later one never records a
\* smaller progress.
C5_ProgressMonotonic ==
    LET w == StatusWrites
    IN  \A k \in 1..(Len(w) - 1) :
            (/\ w[k].record.status = "processing"
             /\ w[k + 1].record.status = "processing")
                => w[k].record.progress <= w[k + 1].record.progress

WroteProgress(n) ==
    \E k \in 1..Len(trace) :
        /\ IsStatus(trace[k])
        /\ trace[k].record.status = "processing"
        /\ trace[k].record.progress = n

\* A completed run in which every optional stage reported its progress.
C5_Witness ==
    /\ Returned
    /\ PersistedStatus = "completed"
    /\ \A n \in {10, 11, 20, 30, 35, 40, 50, 60, 75, 85, 95} : WroteProgress(n)

----------------------------------------------------------------------------
(* C6 *)

\* C6 (as claimed): whenever the process is killed inside a rewrite of
\* config.json, the file still holds a complete record.
C6_CrashKeepsPreviousRecord ==
    pc = "crashed" => disk.intact = "complete"

----------------------------------------------------------------------------
(* C7 *)

PipelineStages ==
    {"validation", "images", "audio", "timeline", "thumbnail", "mux", "effects",
     "fade"}

EventsOf(stage) == {k \in 1..Len(trace) : trace[k].stage = stage}

First(S) == CHOOSE k \in S : \A j \in S : k <= j

Last(S) == CHOOSE k \in S : \A j \in S : j <= k

\* C7 (as claimed): when process() has returned, every stage that did
\* anything began with a status update and ended with one.
C7_UpdateAtStartAndEnd ==
    Returned =>
        \A stage \in PipelineStages :
            EventsOf(stage) # {} =>
                /\ IsStatus(trace[First(EventsOf(stage))])
                /\ IsStatus(trace[Last(EventsOf(stage))])

\* The invocations of the optional steps.
OptionalCall(e) == IsEngine(e) /\ e.tool # "date" /\ ~RequiredCall(e)

\* The optional invocations whose success completes their step: the
\* soundtrack conversion, the thumbnail join, the overlay and the fade (not
\* the thumbnail clip and the duration probe, which are followed by a
\* second invocation).
ReportingCall(e) ==
    /\ OptionalCall(e)
    /\ e.mode \in {"pcm_volume", "concat_copy", "colorkey_overlay", "fade_out"}

\* The update that directly follows invocation k, unless the process was
\* killed while writing it.
FollowedByUpdate(k, status) ==
    IF k = Len(trace) THEN pc = "crashed"
    ELSE /\ IsStatus(trace[k + 1])
         /\ trace[k + 1].stage = trace[k].stage
         /\ trace[k + 1].record.status = status

\* C7 (amended): the status update is performed when Validation ends and
\* directly after every invocation of a required stage that exits, with
\* `processing` on success and `error` on failure, and directly after every
\* successful soundtrack conversion, thumbnail join, overlay and fade.  It
\* is never performed at the start of a stage (every update of a stage
\* other than Validation directly follows an invocation of that stage), and
\* not at all for an optional step that is skipped or whose invocation
\* fails: what follows a failed optional invocation is the next invocation.
C7_UpdateAfterWork ==
    /\ \A k \in 1..Len(trace) :
            LET e == trace[k]
            IN  IF IsEngine(e)
                THEN /\ (RequiredCall(e) /\ e.outcome = "ok") =>
                            FollowedByUpdate(k, "processing")
                     /\ (RequiredCall(e) /\ e.outcome = "fail") =>
                            FollowedByUpdate(k, "error")
                     /\ (ReportingCall(e) /\ e.outcome = "ok") =>
                            FollowedByUpdate(k, "processing")
                     /\ (OptionalCall(e) /\ e.outcome = "fail" /\ k < Len(trace)) =>
                            IsEngine(trace[k + 1])
                     /\ e.stage # "validation"
                ELSE /\ e.stage \notin {"validation", "process"} =>
                            /\ k > 1
                            /\ IsEngine(trace[k - 1])
                            /\ trace[k - 1].stage = e.stage
                            /\ trace[k - 1].outcome \in {"ok", "fail"}
                     /\ e.stage = "validation" => k = 1
    /\ (Constructed /\ project.id /\ pc \notin {"validate", "crashed"}) =>
            Len(trace) > 0 /\ trace[1].stage = "validation"
    /\ project.thumbnail = "none" => EventsOf("thumbnail") = {}
    /\ project.filter # "present" => EventsOf("effects") = {}
    /\ project.soundtrack # "present" =>
            \A k \in EventsOf("audio") : ~OptionalCall(trace[k])

\* A completed run whose soundtrack conversion and overlay both failed.
C7_Witness ==
    /\ Returned
    /\ PersistedStatus = "completed"
    /\ \E k \in 1..Len(trace) : DegradedCall(trace[k], "audio")
    /\ \E k \in 1..Len(trace) : DegradedCall(trace[k], "effects")

----------------------------------------------------------------------------
(* C8 *)

\* C8: in a run on a project whose image list does not hold exactly 30
\* images, process() gets no further than Validation and the media engine
\* is never invoked; when process() has returned, config.json holds
\* status `error`, progress 0 and the message that names the actual count,
\* written by Validation as the only write of the run.
C8_WrongImageCountRejected ==
    (Constructed /\ project.images # RequiredImages) =>
        /\ pc \in {"validate", "exited", "crashed"}
        /\ MediaCalls = {}
        /\ Returned =>
                /\ disk = CompleteFile(config)
                /\ config.status = "error"
                /\ config.progress = 0
                /\ config.message =
                        Msg("Se requieren 30 imagenes, encontradas", project.images)
                /\ trace = <<StatusEvent("validation", config)>>
                /\ exitCode = 1

\* A run on a project with 31 images has returned.
C8_Witness ==
    /\ Returned
    /\ project.images = RequiredImages + 1
    /\ PersistedStatus = "error"

----------------------------------------------------------------------------
(* C9 *)

\* C9 (as claimed): a run without a usable soundtrack (none selected, or its
\* file missing) in which every invocation ran and every required stage
\* succeeded muxes the narration alone, never writes the soundtrack update
\* (progress 40), and returns with status `completed`.
C9_NarrationOnly ==
    (Returned /\ NoneRaised /\ RequiredStagesSucceeded
            /\ project.soundtrack # "present") =>
        /\ \A k \in 1..Len(trace) :
                (IsEngine(trace[k]) /\ trace[k].stage = "mux") =>
                    /\ trace[k].mode = "map_single"
                    /\ Output("soundtrack.wav") \notin trace[k].reads
        /\ ~WroteProgress(40)
        /\ \A k \in 1..Len(trace) :
                IsStatus(trace[k]) =>
                    trace[k].record.message # Msg("Soundtrack procesado", 0)
        /\ PersistedStatus = "completed"

----------------------------------------------------------------------------
(* C10 *)

\* The step process() takes from position s.pc, given the outcome o of the
\* invocation it makes (if it makes one) and no kill.
Step(s, p, o) ==
    CASE s.pc = "validate" -> process_begin(s, p, "none")
      [] s.pc = "images" -> prepare_images(s, p, o, "none")
      [] s.pc = "narration" -> prepare_audio_narration(s, p, o, "none")
      [] s.pc = "soundtrack" -> prepare_audio_soundtrack(s, p, o, "none")
      [] s.pc = "timeline" -> create_video_timeline(s, p, o, "none")
      [] s.pc = "thumbnail" -> add_thumbnail_clip(s, p, o, "none")
      [] s.pc = "thumbnail_concat" -> add_thumbnail_concat(s, p, o, "none")
      [] s.pc = "mux" -> add_audio(s, p, o, "none")
      [] s.pc = "effects" -> apply_effects(s, p, o, "none")
      [] s.pc = "fade_probe" -> add_fade_out_probe(s, p, o, "none")
      [] s.pc = "fade" -> add_fade_out(s, p, o, "none")
      [] s.pc = "finalize" -> finalize(s, p, o, "none")

\* The run of process() from s on project p in which the invocations end as
\* the sequence q says, one after the other; "diverged" when the run makes an
\* invocation that q has no outcome for, or not the one q has an outcome for.
\* (Whether a step makes an invocation does not depend on how the
\* invocation ends.)
RECURSIVE Replay(_, _, _)
Replay(s, p, q) ==
    IF s.pc \in {"exited", "crashed", "diverged"} THEN s
    ELSE LET fits == q # <<>> /\ (Head(q) = "unparseable" => s.pc = "fade_probe")
             r == Step(s, p, IF fits THEN Head(q) ELSE "raise")
             invokes == /\ Len(r.trace) > Len(s.trace)
                        /\ IsEngine(r.trace[Len(s.trace) + 1])
         IN  IF ~invokes THEN Replay(r, p, q)
             ELSE IF ~fits THEN [s EXCEPT !.pc = "diverged"]
             ELSE Replay(r, p, Tail(q))

\* How the invocations of the run ended, in order.
OutcomesOf(tr) ==
    LET calls == SelectSeq(tr, IsEngine)
    IN  [k \in 1..Len(calls) |-> calls[k].outcome]

\* The processor as process() was entered in this run.  The keys of the
\* loaded record that update_status never assigns (outputFile, completedAt)
\* are those of the run's first write; status, progress and message are
\* assigned by validate_files before anything reads them, so the first
\* written record stands for the loaded one.
ProcessEntry ==
    [pc |-> "validate", config |-> trace[1].record,
     disk |-> CompleteFile(trace[1].record), image_paths |-> <<>>,
     audio_files |-> <<>>, video_path |-> NoPath, final_video |-> NoPath,
     trace |-> <<>>, exitCode |-> -1]

\* The same project with no filter selected.
WithoutFilter == [project EXCEPT !.filter = "none"]

\* The run of the project without a filter whose invocations end as those
\* of this run did.
NoFilterRun == Replay(ProcessEntry, WithoutFilter, OutcomesOf(trace))

\* C10 (as claimed): whatever the outcomes of the invocations, a run on a
\* project that passes Validation, has its output directory and has a
\* selected filter that is missing leaves what the run with no filter
\* selected and the same invocation outcomes leaves, and both reach
\* `completed`.
C10_BothReachCompleted ==
    (Returned /\ ProjectValid /\ project.outputDir /\ project.filter = "missing") =>
        /\ NoFilterRun.trace = trace
        /\ NoFilterRun.disk = disk
        /\ PersistedStatus = "completed"
        /\ NoFilterRun.disk.content.status = "completed"

\* C10 (amended): for every sequence of invocation outcomes, the run on a
\* project whose selected filter is missing and the run on the same project
\* with no filter selected write the same sequence of status records, make
\* the same invocations on the same files, return the same result and leave
\* the same config.json (the same status and outputFile): both reach
\* `completed`, or neither does.  (The first conjunct checks the replay
\* against the run itself.)
C10_MissingFilterAsNoFilter ==
    /\ Returned => Replay(ProcessEntry, project, OutcomesOf(trace)) = Self
    /\ (Returned /\ project.filter = "missing") =>
            LET r == NoFilterRun
            IN  /\ r.pc = "exited"
                /\ r.trace = trace
                /\ r.config = config
                /\ r.disk = disk
                /\ r.final_video = final_video
                /\ r.exitCode = exitCode
                /\ PersistedStatus = "completed"
                        <=> r.disk.content.status = "completed"

\* A completed run on a project whose selected filter is missing.
C10_Witness ==
    /\ Returned
    /\ project.filter = "missing"
    /\ PersistedStatus = "completed"
    /\ config.outputFile # ""

----------------------------------------------------------------------------
(* C11 *)

\* A worker process just started on a project directory whose config.json
\* is d.
Started(d) ==
    [pc |-> "main", config |-> NoRecord, disk |-> d, image_paths |-> <<>>,
     audio_files |-> <<>>, video_path |-> NoPath, final_video |-> NoPath,
     trace |-> <<>>, exitCode |-> -1]

\* The invocations of a run, in order: tool, mode, files read, file written
\* and outcome.
EngineCalls(tr) == SelectSeq(tr, IsEngine)

\* The next run on the directory this run has left, with its invocations
\* ending as those of this run did.
Rerun == Replay(main(Started(disk), project), project, OutcomesOf(trace))

\* C11: when process() has returned, the run of the worker on the directory
\* it has left (the rewritten config.json, the same assets), with every
\* invocation ending as it did in this run, makes the same invocations
\* writing the same paths, returns the same result and leaves config.json
\* with the same status, progress, message and outputFile, and with
\* completedAt populated exactly if it was.
C11_RerunIdempotent ==
    Returned =>
        LET r == Rerun
        IN  /\ r.pc = "exited"
            /\ r.exitCode = exitCode
            /\ EngineCalls(r.trace) = EngineCalls(trace)
            /\ r.disk.intact = "complete"
            /\ r.disk.content.status = disk.content.status
            /\ r.disk.content.progress = disk.content.progress
            /\ r.disk.content.message = disk.content.message
            /\ r.disk.content.outputFile = disk.content.outputFile
            /\ r.disk.content.completedAt = disk.content.completedAt

\* The second run on a directory has completed, having started from the
\* record a completed first run left, and its rerun would write the faded
\* video once more.
C11_Witness ==
    /\ run = 2
    /\ Returned
    /\ PersistedStatus = "completed"
    /\ ProcessEntry.config.outputFile = "final_video.mp4"
    /\ disk.content.outputFile = "final_video.mp4"
    /\ LET r == Rerun
       IN  \E k \in 1..Len(r.trace) :
                /\ IsEngine(r.trace[k])
                /\ r.trace[k].writes = Output("final_video.mp4")

----------------------------------------------------------------------------
(* C12 *)

\* C12: the process exits with 0 exactly when process() has returned with
\* config.json holding status `completed`, and with a non-zero code when the
\* project directory does not exist and when process() has returned with
\* config.json holding status `error`; process() never returns with
\* config.json holding `pending` or `processing`; and there is no exit code
\* before the process has exited.
C12_ExitCodeMirrorsOutcome ==
    /\ pc = "exited" =>
            /\ exitCode \in {0, 1}
            /\ exitCode = 0 <=>
                    (Returned /\ disk.intact = "complete"
                        /\ PersistedStatus = "completed")
    /\ (pc = "exited" /\ ~project.dir) => exitCode = 1 /\ ~Constructed
    /\ (Returned /\ PersistedStatus = "error") => exitCode = 1
    /\ Returned =>
            /\ disk.intact = "complete"
            /\ PersistedStatus \in {"completed", "error"}
    /\ pc # "exited" => exitCode = -1

\* A run that failed after it had reported progress as `processing` has
\* exited with 1, on a directory that an earlier run had completed with 0.
C12_Witness ==
    /\ run = 2
    /\ Returned
    /\ exitCode = 1
    /\ PersistedStatus = "error"
    /\ disk.content.completedAt
    /\ WroteProgress(75)

----------------------------------------------------------------------------
(* C13 *)

\* The record process()'s handler writes.
UnexpectedRecord(e) ==
    /\ IsStatus(e)
    /\ e.stage = "process"
    /\ e.record.status = "error"
    /\ e.record.progress = 0
    /\ e.record.message = Msg("Error inesperado", 0)

\* The run ended with the handler's record as event k of its trace: when
\* process() has returned, that record is in config.json and the result is
\* False.
HandledAt(k) ==
    /\ pc \in {"exited", "crashed"}
    /\ pc = "exited" =>
            /\ Len(trace) = k
            /\ UnexpectedRecord(trace[k])
            /\ disk = CompleteFile(trace[k].record)
            /\ exitCode = 1

\* C13: an exception that no stage handles ends the run with the
\* handler's record: an invocation that cannot be started (in any stage, and
\* of `date`), a duration that float() rejects, a record without the key
\* "id", and an output directory that is not there when Image Normalization
\* makes its subdirectory are each directly followed by the write of
\* status `error`, progress 0, and process() returns False with that
\* record in config.json; nothing else is invoked or written in between.
C13_UnhandledExceptionRecorded ==
    /\ \A k \in 1..Len(trace) :
            (IsEngine(trace[k]) /\ trace[k].outcome \in {"raise", "unparseable"}) =>
                /\ HandledAt(k + 1)
                /\ pc = "crashed" => Len(trace) = k
    /\ (Constructed /\ ~project.id /\ pc # "validate") =>
            /\ HandledAt(1)
            /\ pc = "crashed" => trace = <<>>
    /\ (Constructed /\ ProjectValid /\ ~project.outputDir
            /\ pc \notin {"validate", "images"}) =>
            /\ HandledAt(2)
            /\ MediaCalls = {}
            /\ Len(trace) >= 1 => trace[1].stage = "validation"

\* A run whose overlay could not be started, after Audio Muxing had
\* reported 75, has returned.
C13_Witness ==
    /\ Returned
    /\ WroteProgress(75)
    /\ \E k \in 1..Len(trace) :
            /\ IsEngine(trace[k])
            /\ trace[k].stage = "effects"
            /\ trace[k].outcome = "raise"
    /\ disk.content.status = "error"
    /\ disk.content.progress = 0

----------------------------------------------------------------------------
(* C14 *)

\* Every invocation the run made exited with success.
EngineCooperated ==
    \A k \in 1..Len(trace) : IsEngine(trace[k]) => trace[k].outcome = "ok"

\* C14 (as claimed): a run on a project that passes Validation and has no
\* `output` directory, in which no invocation fails, returns with status
\* `completed`.
C14_OutputDirCreated ==
    (Returned /\ ProjectValid /\ ~project.outputDir /\ EngineCooperated) =>
        PersistedStatus = "completed"

----------------------------------------------------------------------------
(* C15 *)

\* C15: every completed rewrite of config.json with status `error` records
\* progress 0, whatever was recorded before it; and once the run has
\* written a record, status `error` in memory or in config.json goes with
\* progress 0.
C15_ErrorResetsProgress ==
    /\ \A k \in 1..Len(trace) :
            (IsStatus(trace[k]) /\ trace[k].record.status = "error") =>
                trace[k].record.progress = 0
    /\ (\E k \in 1..Len(trace) : IsStatus(trace[k])) =>
            /\ config.status = "error" => config.progress = 0
            /\ PersistedStatus = "error" => disk.content.progress = 0

\* A run that had reported 60 after the thumbnail join and whose muxing
\* failed has returned with progress 0.
C15_Witness ==
    /\ Returned
    /\ WroteProgress(60)
    /\ \E k \in 1..Len(trace) : DegradedCall(trace[k], "mux")
    /\ PersistedStatus = "error"
    /\ disk.content.progress = 0
    /\ config.progress = 0

----------------------------------------------------------------------------
(* C16 *)

OptionalStages == {"thumbnail", "effects", "fade"}

\* The record of the last completed rewrite of config.json before event k.
RecordBefore(k) ==
    trace[Last({j \in 1..(k - 1) : IsStatus(trace[j])})].record

\* Status update k directly follows a successful invocation of the given
\* stage and mode.
ReportsSuccessOf(k, stage, mode) ==
    /\ k > 1
    /\ trace[k].stage = stage
    /\ IsEngine(trace[k - 1])
    /\ trace[k - 1].stage = stage
    /\ trace[k - 1].mode = mode
    /\ trace[k - 1].outcome = "ok"

\* C16: a failed invocation of Thumbnail, Effects or Fade-Out is followed
\* by no status update of its stage, and when the stage has ended with it,
\* the record in memory and in config.json is the one written last before
\* the stage; a stage that is not enabled or lacks its asset writes and
\* invokes nothing, so that the next stage is entered with the record of
\* the stage before; and progress 60, 85 and 95 are written only directly
\* after the successful thumbnail join, overlay and fade.
C16_DegradedStageLeavesRecord ==
    /\ \A k \in 1..Len(trace) :
            (\E stage \in OptionalStages : DegradedCall(trace[k], stage)) =>
                /\ \A j \in (k + 1)..Len(trace) :
                        IsStatus(trace[j]) => trace[j].stage # trace[k].stage
                /\ k = Len(trace) =>
                        /\ pc \in {"mux", "finalize", "fade_probe"}
                        /\ config = RecordBefore(k)
                        /\ disk = CompleteFile(RecordBefore(k))
    /\ project.thumbnail = "none" =>
            /\ EventsOf("thumbnail") = {}
            /\ pc = "mux" =>
                    /\ trace[Len(trace)] = StatusEvent("timeline", config)
                    /\ disk = CompleteFile(config)
    /\ project.filter # "present" =>
            /\ EventsOf("effects") = {}
            /\ pc = "fade_probe" =>
                    /\ trace[Len(trace)] = StatusEvent("mux", config)
                    /\ disk = CompleteFile(config)
    /\ \A k \in 1..Len(trace) :
            IsStatus(trace[k]) =>
                /\ trace[k].record.progress = 60 =>
                        ReportsSuccessOf(k, "thumbnail", "concat_copy")
                /\ trace[k].record.progress = 85 =>
                        ReportsSuccessOf(k, "effects", "colorkey_overlay")
                /\ trace[k].record.progress = 95 =>
                        ReportsSuccessOf(k, "fade", "fade_out")

\* The fade has just failed in a run whose thumbnail join and overlay had
\* failed too: config.json still holds Audio Muxing's record.
C16_Witness ==
    /\ pc = "finalize"
    /\ DegradedCall(trace[Len(trace)], "fade")
    /\ \E k \in 1..Len(trace) : DegradedCall(trace[k], "thumbnail")
    /\ \E k \in 1..Len(trace) : DegradedCall(trace[k], "effects")
    /\ disk.content.status = "processing"
    /\ disk.content.progress = 75
    /\ disk.content.message = Msg("Audio agregado al video", 0)

----------------------------------------------------------------------------
(* C17 *)

\* The invocations that write a file.
WritingCalls == {k \in 1..Len(trace) : IsEngine(trace[k]) /\ trace[k].writes # NoPath}

\* The invocation the last step of process() has made, if it made one: the
\* last event of the trace, or the one before the status update that
\* followed it.
LatestCalls == {k \in WritingCalls : k >= Len(trace) - 1}

\* C17: within a run, every invocation writes a file under `output` that it
\* does not read itself, that no earlier invocation of the run has written
\* and that no earlier invocation has read: the output of a stage is
\* written once, by the invocation that makes it, and a stage that fails
\* has touched nothing an earlier stage made.  (Stated of the latest
\* invocation in every state, which is every invocation of every run.)
C17_ArtifactsWrittenOnce ==
    \A k \in LatestCalls :
        /\ trace[k].writes.dir \in {"output", "output/processed_images"}
        /\ trace[k].writes \notin trace[k].reads
        /\ \A j \in 1..(k - 1) :
                IsEngine(trace[j]) =>
                    /\ trace[j].writes # trace[k].writes
                    /\ trace[k].writes \notin trace[j].reads

\* A run in which the thumbnail was joined and the muxing then failed has
\* returned.
C17_Witness ==
    /\ Returned
    /\ \E k \in WritingCalls :
            /\ trace[k].writes = Output("with_thumbnail.mp4")
            /\ trace[k].outcome = "ok"
    /\ \E k \in WritingCalls :
            /\ trace[k].stage = "mux"
            /\ trace[k].outcome = "fail"
            /\ Output("with_thumbnail.mp4") \in trace[k].reads

----------------------------------------------------------------------------
(* C18 *)

\* The files the run's invocations have made so far before event k.
MadeBefore(k) ==
    {trace[j].writes : j \in {i \in 1..(k - 1) : IsEngine(trace[i])}} \ {NoPath}

\* The stage of the latest invocation before event k that belongs to
\* another stage than event k ("" when there is none).
StageBefore(k) ==
    LET S == {j \in 1..(k - 1) : IsEngine(trace[j]) /\ trace[j].stage # trace[k].stage}
    IN  IF S = {} THEN "" ELSE trace[Last(S)].stage

\* The stage whose invocation made file f before event k.
MakerOf(f, k) ==
    trace[CHOOSE j \in 1..(k - 1) : IsEngine(trace[j]) /\ trace[j].writes = f].stage

\* C18 (as claimed): every file an invocation reads that an earlier
\* invocation of the run has made was made by the stage itself or by the
\* stage that ran immediately before it.
C18_ReadsPreviousStageOnly ==
    \A k \in 1..Len(trace) :
        IsEngine(trace[k]) =>
            \A f \in trace[k].reads \cap MadeBefore(k) :
                MakerOf(f, k) \in {trace[k].stage, StageBefore(k)}

VideoArtifacts ==
    {Output("images_video.mp4"), Output("with_thumbnail.mp4"),
     Output("with_audio.mp4"), Output("with_effects.mp4"),
     Output("final_video.mp4")}

AudioArtifacts == {Output("narration.wav"), Output("soundtrack.wav")}

\* The video the latest successful video-making invocation before event k
\* has made.
LatestVideo(k) ==
    LET S == {j \in 1..(k - 1) :
                /\ IsEngine(trace[j])
                /\ trace[j].outcome = "ok"
                /\ trace[j].writes \in VideoArtifacts}
    IN  IF S = {} THEN NoPath ELSE trace[Last(S)].writes

\* File f was made by a successful invocation of the given stage before
\* event k.
MadeBy(f, stage, k) ==
    \E j \in 1..(k - 1) :
        /\ IsEngine(trace[j])
        /\ trace[j].stage = stage
        /\ trace[j].writes = f
        /\ trace[j].outcome = "ok"

\* The latest invocation of the run: the last event of the trace, or the
\* one before the status update that followed it.
LatestCall == {k \in 1..Len(trace) : IsEngine(trace[k]) /\ k >= Len(trace) - 1}

\* C18 (amended): the artifacts form three flows, not one chain.  The
\* normalized images are made by Image Normalization and read by Timeline
\* Assembly only, which reads all of them (and its own list file); the
\* normalized audio tracks are made by Audio Normalization and read by
\* Audio Muxing only; the thumbnail clip is read by the thumbnail join
\* only; and the videos form a chain: the thumbnail join, Audio Muxing,
\* Effects and Fade-Out each read exactly one video, the one made by the
\* latest video stage that succeeded.  Image Normalization, Audio
\* Normalization and the thumbnail clip read assets only, and nothing reads
\* the faded video.  (Stated of the latest invocation in every state, which
\* is every invocation of every run.)
C18_ArtifactFlows ==
    \A k \in LatestCall :
        LET e == trace[k]
            videos == e.reads \cap VideoArtifacts
            images == {f \in e.reads : f.dir = "output/processed_images"}
            tracks == e.reads \cap AudioArtifacts
            clip == e.reads \cap {Output("thumbnail_video.mp4")}
        IN  /\ e.stage = "timeline" =>
                    /\ images = {ProcessedImage(i) : i \in 0..(RequiredImages - 1)}
                    /\ \A f \in images : MadeBy(f, "images", k)
            /\ e.stage # "timeline" => images = {}
            /\ e.stage = "mux" =>
                    /\ Output("narration.wav") \in tracks
                    /\ \A f \in tracks : MadeBy(f, "audio", k)
            /\ e.stage # "mux" => tracks = {}
            /\ e.mode = "concat_copy" <=> clip # {}
            /\ e.mode = "concat_copy" =>
                    MadeBy(Output("thumbnail_video.mp4"), "thumbnail", k)
            /\ (e.stage \in {"mux", "effects", "fade"} \/ e.mode = "concat_copy") =>
                    /\ videos = {LatestVideo(k)}
                    /\ LatestVideo(k) # Output("final_video.mp4")
            /\ (e.stage \in {"images", "audio", "timeline", "process"}
                    \/ e.mode = "loop_clip") => videos = {}
            /\ e.stage \in {"images", "audio"} \/ e.mode = "loop_clip" =>
                    \A f \in e.reads : f.dir \notin {"output", "output/processed_images"}

\* A completed run in which the overlay failed and the fade then read the
\* muxed video, which had been mixed from both tracks over the video with
\* the thumbnail.
C18_Witness ==
    /\ Returned
    /\ PersistedStatus = "completed"
    /\ \E k \in 1..Len(trace) : DegradedCall(trace[k], "effects")
    /\ \E k \in 1..Len(trace) :
            /\ IsEngine(trace[k])
            /\ trace[k].mode = "fade_out"
            /\ trace[k].outcome = "ok"
            /\ trace[k].reads = {Output("with_audio.mp4")}
    /\ \E k \in 1..Len(trace) :
            /\ IsEngine(trace[k])
            /\ trace[k].mode = "amix"
            /\ trace[k].reads = {Output("with_thumbnail.mp4")} \cup AudioArtifacts

----------------------------------------------------------------------------
(* C19 *)

ImageCall(e) == IsEngine(e) /\ e.stage = "images"

\* C19: the image conversions are the run's first invocations, issued in
\* the order of the list, each after the one before has exited with
\* success and its progress has been written: conversion i (from 0) is
\* event 2 + 2i of the trace, reads image i and writes img_i.  A conversion
\* that exits with failure is the last invocation of the run: it is
\* followed by the write of status `error` with the message naming the
\* image (counted from 1) and by nothing else, the stage has returned no
\* images, process() has no video, and no video file has been made.
\* (Stated of the latest invocation in every state, every conversion
\* before it having succeeded.)
C19_ImagesInOrderAbortOnFailure ==
    /\ \A k \in 1..(Len(trace) - 2) : ImageCall(trace[k]) => trace[k].outcome = "ok"
    /\ \A k \in LatestCall :
            ImageCall(trace[k]) =>
                LET i == trace[k].writes.index
                IN  /\ k = 2 + 2 * i
                    /\ i < RequiredImages
                    /\ trace[k].reads = {SourceImage(i)}
                    /\ trace[k].writes = ProcessedImage(i)
                    /\ i > 0 => ImageCall(trace[k - 2]) /\ trace[k - 2].outcome = "ok"
                    /\ trace[k].outcome = "ok" =>
                            \/ pc = "crashed" /\ Len(trace) = k
                            \/ /\ Len(trace) = k + 1
                               /\ IsStatus(trace[k + 1])
                               /\ trace[k + 1].stage = "images"
                               /\ trace[k + 1].record.status = "processing"
                               /\ trace[k + 1].record.progress =
                                        ImageProgress(i, RequiredImages)
                               /\ trace[k + 1].record.message =
                                        Msg("Procesando imagen", i + 1)
                    /\ trace[k].outcome = "fail" =>
                            /\ pc \in {"exited", "crashed"}
                            /\ image_paths = <<>>
                            /\ video_path = NoPath
                            /\ final_video = NoPath
                            /\ pc = "crashed" => Len(trace) = k
                            /\ pc = "exited" =>
                                    /\ Len(trace) = k + 1
                                    /\ trace[k + 1] = StatusEvent("images", config)
                                    /\ config.status = "error"
                                    /\ config.message =
                                            Msg("Error procesando imagen", i + 1)
                                    /\ disk = CompleteFile(config)
                                    /\ exitCode = 1

\* A run whose last image could not be converted has returned, naming
\* image 30.
C19_Witness ==
    /\ Returned
    /\ Len(trace) = 2 * RequiredImages + 1
    /\ ImageCall(trace[2 * RequiredImages])
    /\ trace[2 * RequiredImages].outcome = "fail"
    /\ disk.content.message = Msg("Error procesando imagen", RequiredImages)
    /\ image_paths = <<>>

----------------------------------------------------------------------------
(* C20 *)

\* C20 (as claimed): whenever config.json holds a record with status
\* `processing` or `error`, in the first run on a directory or in a later
\* one, the record has neither outputFile nor completedAt.
C20_OutputFieldsOnlyWhenCompleted ==
    (disk.intact = "complete" /\ PersistedStatus \in {"processing", "error"}) =>
        /\ disk.content.outputFile = ""
        /\ ~disk.content.completedAt

----------------------------------------------------------------------------
(* C21 *)

\* The successful file-making invocations of Audio Muxing, Effects and
\* Fade-Out in the run.
FinishingCalls ==
    {k \in 1..Len(trace) :
        /\ IsEngine(trace[k])
        /\ trace[k].stage \in {"mux", "effects", "fade"}
        /\ trace[k].writes # NoPath
        /\ trace[k].outcome = "ok"}

FadeSucceeded ==
    \E k \in FinishingCalls : trace[k].mode = "fade_out"

\* C21: when process() has returned with status `completed`, outputFile
\* is the name of the file made by the last successful invocation of Audio
\* Muxing, Effects and Fade-Out of the run: one of with_audio.mp4,
\* with_effects.mp4 and final_video.mp4, the last one exactly if the fade
\* succeeded, and never the timeline video or the video with the thumbnail.
C21_OutputFileIsLastSuccess ==
    (Returned /\ PersistedStatus = "completed") =>
        /\ FinishingCalls # {}
        /\ disk.content.outputFile = basename(trace[Last(FinishingCalls)].writes)
        /\ disk.content.outputFile \in
                {"with_audio.mp4", "with_effects.mp4", "final_video.mp4"}
        /\ disk.content.outputFile = "final_video.mp4" <=> FadeSucceeded
        /\ disk.content.outputFile \notin {"images_video.mp4", "with_thumbnail.mp4"}

\* A completed run in which the thumbnail was joined, the overlay succeeded
\* and the fade failed: the output file is the video with the effects.
C21_Witness ==
    /\ Returned
    /\ PersistedStatus = "completed"
    /\ WroteProgress(60)
    /\ WroteProgress(85)
    /\ DegradedCall(trace[Len(trace) - 2], "fade")
    /\ disk.content.outputFile = "with_effects.mp4"

====
